---- MODULE Spec2Model ----
(***************************************************************************)
(* Univox: the Deepgram provider (providers/deepgram.py) behind the        *)
(* provider-agnostic STT service (service.py).                             *)
(*                                                                         *)
(* The vendor SDK is the environment: a connection object is created by    *)
(* client.listen.asyncwebsocket.v("1"), its start() answers True or False, *)
(* it emits Transcript and Error events while it is open, and it may be    *)
(* closed by the remote side at any time.  Every provider method runs on   *)
(* the pipeline's event loop; one action is one whole method call.         *)
(***************************************************************************)
EXTENDS Integers, Sequences, FiniteSets, TLC

\* ------------------------------------------------------------------ bounds
\* vendor connection objects alive at the same time
MaxConns == 2
\* transcription frames pushed downstream by the service
MaxFrames == 2
MaxBufferBytes == 3

\* ------------------------------------------------------------- vocabulary
None == "None"

\* pipecat Language enum members and their .value
LanguageEnum == {"Language.EN", "Language.ES"}

LanguageValue(l) == IF l = "Language.EN" THEN "en" ELSE "es"

IsLanguage(x) == x \in LanguageEnum

\* Language(tag): the member whose value is tag; raises ValueError otherwise
LanguageOf(tag) ==
  IF tag = "en" THEN "Language.EN"
  ELSE IF tag = "es" THEN "Language.ES"
  ELSE "ValueError"

\* ------------------------------------------------------------ LiveOptions
\* A LiveOptions object: every field is <<>> (unset, None) or <<value>>.
LiveOptionFields ==
  {"encoding", "language", "model", "channels", "interim_results",
   "smart_format", "punctuate", "profanity_filter", "vad_events"}

LiveOptions(kw) ==
  [k \in LiveOptionFields |-> IF k \in DOMAIN kw THEN <<kw[k]>> ELSE <<>>]

\* LiveOptions.to_dict(): the fields that are set
ToDict(lo) == [k \in {f \in DOMAIN lo : lo[f] # <<>>} |-> lo[k][1]]

\* dict.update
Update(d, e) ==
  [k \in DOMAIN d \cup DOMAIN e |-> IF k \in DOMAIN e THEN e[k] ELSE d[k]]

\* d[k] = v on a dict
SetItem(d, k, v) ==
  [x \in DOMAIN d \cup {k} |-> IF x = k THEN v ELSE d[x]]

default_options ==
  LiveOptions([encoding |-> "linear16", language |-> "Language.EN",
               model |-> "nova-3-general", channels |-> 1,
               interim_results |-> TRUE, smart_format |-> TRUE,
               punctuate |-> TRUE, profanity_filter |-> TRUE,
               vad_events |-> FALSE])

\* __init__ that takes the caller's options in place of the defaults
MergeReplace(live_options) ==
  IF live_options # <<>>
  THEN ToDict(live_options[1])
  ELSE ToDict(default_options)

\* __init__: the defaults, overlaid by the caller's options.  An Optional
\* argument is <<>> for None and <<object>> otherwise.
MergeOverride(live_options) ==
  LET base == ToDict(default_options)
      m1 == IF live_options # <<>>
            THEN LET u == Update(base, ToDict(live_options[1]))
                 IN IF "model" \in DOMAIN u /\ u["model"] = "None"
                    THEN SetItem(u, "model", default_options["model"][1])
                    ELSE u
            ELSE base
  IN m1

NormalizeLanguage(m) ==
  IF "language" \in DOMAIN m /\ IsLanguage(m["language"])
  THEN SetItem(m, "language", LanguageValue(m["language"]))
  ELSE m

MergedSettings(live_options) == NormalizeLanguage(MergeOverride(live_options))


\* ------------------------------------------------------------------ state
VARIABLES
  live_options, \* the live_options argument the provider was constructed with
  settings,     \* DeepgramProvider._settings (a dict)
  connection,   \* DeepgramProvider._connection: 0 is None, else a connection id
  callbacks,    \* DeepgramProvider._callbacks: None or the service's sink
  sample_rate,  \* DeepgramProvider._sample_rate
  conns,        \* the vendor's connection objects, by id
  downstream,   \* frames the STT service has pushed downstream, in order
  service,      \* UnivoxSTTService: its sample rate and model bookkeeping
  last,         \* the call that produced this state and what it did
  vad           \* the VAD analyzer the transport holds, and the last VAD call

vars == <<live_options, settings, connection, callbacks, sample_rate, conns,
          downstream, service, last, vad>>

ConnIds == 1..MaxConns

FreeConn == [state |-> "free", on |-> <<>>]

\* caller inputs
SampleRates == {8000, 16000}
Models == {"nova-3-general", "nova-2"}
LanguageArgs == {"Language.EN", "es"}
AudioChunks == {"pcm"}

\* vendor transcript results: LiveResultResponse
Alternatives ==
  {<<>>, <<[transcript |-> "", languages |-> <<>>]>>}
  \cup {<<[transcript |-> "hello", languages |-> ls]>> :
          ls \in {<<"en">>, <<"xx">>}}

Results ==
  [channel : [alternatives : Alternatives], is_final : BOOLEAN]

\* vendor error events: the keyword arguments handed to the Error handler
ErrorKwargs == {[error |-> [type |-> "ErrorResponse", err_msg |-> "closed"]],
                [other |-> [type |-> "NoneType"]]}

\* str(error)
Str(e) == IF e.type = "NoneType" THEN "None" ELSE e.err_msg

\* kwargs.get("error")
GetError(kwargs) ==
  IF "error" \in DOMAIN kwargs THEN kwargs["error"] ELSE [type |-> "NoneType"]

\* ----------------------------------------------------- one call in flight
\* The state a call works on: the provider's fields, the vendor's
\* connections, and what the call has done so far.
Begin ==
  [settings |-> settings, connection |-> connection, callbacks |-> callbacks,
   sample_rate |-> sample_rate, conns |-> conns, downstream |-> downstream,
   service |-> service, provider |-> <<>>,
   vendor |-> <<>>, internal |-> <<>>, sink |-> <<>>, frames |-> <<>>,
   raised |-> FALSE]

IsConnected(s, c) == s.conns[c].state = "open"

\* a connection object nobody refers to and that is not open is gone
Collect(cs, held) ==
  [c \in DOMAIN cs |->
     IF c # held /\ cs[c].state \in {"failed", "lost", "closed"}
     THEN FreeConn ELSE cs[c]]

HasFree(cs) == \E c \in DOMAIN cs : cs[c].state = "free"

\* room for one more connection object once s drops its reference
CanConnect(s) == HasFree(Collect(s.conns, 0))

FreshId(cs) == CHOOSE c \in DOMAIN cs :
                 /\ cs[c].state = "free"
                 /\ \A d \in DOMAIN cs : cs[d].state = "free" => c <= d

\* ------------------------------------------------------------ STT service
user_id == ""

ErrorFrame(error) == [type |-> "ErrorFrame", error |-> error]

InterimTranscriptionFrame(text, uid, language, result) ==
  [type |-> "InterimTranscriptionFrame", text |-> text, user_id |-> uid,
   language |-> language, result |-> result]

TranscriptionFrame(text, uid, language, result) ==
  [type |-> "TranscriptionFrame", text |-> text, user_id |-> uid,
   language |-> language, result |-> result]

\* push_frame that puts the frame ahead of the frames already pushed
PushFrameFirst(s, f) ==
  [s EXCEPT !.frames = Append(@, f), !.downstream = <<f>> \o @]

\* FrameProcessor.push_frame as the service uses it: downstream, in order
PushFrame(s, f) ==
  [s EXCEPT !.frames = Append(@, f), !.downstream = Append(@, f)]

\* FrameProcessor.push_error: the error frame travels upstream
PushError(s, f) == [s EXCEPT !.frames = Append(@, f)]

HandleInterim(s, evt) ==
  PushFrame(s, InterimTranscriptionFrame(evt.text, user_id, evt.language,
                                         evt.provider_payload))

\* _handle_final that leaves the language out of the frame
HandleFinalNoLanguage(s, evt) ==
  PushFrame(s, TranscriptionFrame(evt.text, user_id, None,
                                  evt.provider_payload))

\* _handle_transcription is a traced no-op
HandleFinal(s, evt) ==
  PushFrame(s, TranscriptionFrame(evt.text, user_id, evt.language,
                                  evt.provider_payload))

\* _ServiceCallbacks
SinkOnInterim(s, evt) ==
  HandleInterim([s EXCEPT !.sink = Append(@, <<"on_interim", evt>>)], evt)

SinkOnFinal(s, evt) ==
  HandleFinal([s EXCEPT !.sink = Append(@, <<"on_final", evt>>)], evt)

SinkOnError(s, error) ==
  PushError([s EXCEPT !.sink = Append(@, <<"on_error", error>>)],
            ErrorFrame(error))


\* ------------------------------------------------- DeepgramProvider, inner
\* the Transcript handler registered a second time
WiringTwice ==
  << <<"Transcript", "_on_message">>, <<"Error", "_on_error">>,
     <<"Transcript", "_on_message">> >>

\* the handlers _connect registers on a new connection
Wiring == << <<"Transcript", "_on_message">>, <<"Error", "_on_error">> >>

\* connection.finish()
Finish(s, c) ==
  [s EXCEPT !.vendor = Append(@, <<"finish", c>>),
            !.conns[c].state = "closed"]

\* _connect; started is the answer of the vendor's start().  The reference
\* to the previous connection object is overwritten by the new one.  The
\* vendor log records start(options) together with its answer.
Connect(s, started) ==
  IF s.raised THEN s
  ELSE
    LET cs == Collect(s.conns, 0)
        c == FreshId(cs)
        s1 == [s EXCEPT
                 !.internal = Append(@, "_connect"),
                 !.connection = c,
                 !.conns = [cs EXCEPT ![c] =
                              [state |-> IF started THEN "open" ELSE "failed",
                               on |-> Wiring]],
                 !.vendor = @ \o << <<"v", c>>,
                                   <<"start", c, s.settings, started>> >>]
    IN IF ~started /\ s.callbacks # None
       THEN SinkOnError(s1, "Deepgram connection failed. Check API key and network.")
       ELSE s1

\* _disconnect without its guard: finish() on whatever is held
DisconnectUnguarded(s) ==
  IF s.raised THEN s
  ELSE
    LET s0 == [s EXCEPT !.internal = Append(@, "_disconnect")]
    IN IF s.connection = 0
       THEN [s0 EXCEPT !.raised = TRUE]
       ELSE [Finish(s0, s.connection) EXCEPT !.connection = 0]

\* _disconnect
Disconnect(s) ==
  IF s.raised THEN s
  ELSE
    LET s0 == [s EXCEPT !.internal = Append(@, "_disconnect")]
        s1 == IF s.connection # 0 /\ IsConnected(s, s.connection)
              THEN Finish(s0, s.connection)
              ELSE s0
    IN [s1 EXCEPT !.connection = 0]

\* _reconnect
Reconnect(s, started) == Connect(Disconnect(s), started)

\* start
DoStart(s, sr, started) ==
  Connect([s EXCEPT !.sample_rate = sr,
                    !.settings = SetItem(@, "sample_rate", sr)], started)

\* send_audio that only tests for a held connection
DoSendAudioHeld(s, audio) ==
  IF s.connection = 0
  THEN s
  ELSE [s EXCEPT !.vendor = Append(@, <<"send", s.connection, audio>>)]

\* send_audio
DoSendAudio(s, audio) ==
  IF s.connection = 0 \/ ~IsConnected(s, s.connection)
  THEN s
  ELSE [s EXCEPT !.vendor = Append(@, <<"send", s.connection, audio>>)]

\* finalize_utterance; fails: the vendor's finalize() raises
DoFinalize(s, fails) ==
  IF s.connection = 0
  THEN s
  ELSE [s EXCEPT !.vendor = Append(@, <<"finalize", s.connection>>),
                 !.raised = fails]

\* set_language
DoSetLanguage(s, language, started) ==
  Reconnect([s EXCEPT !.settings =
               SetItem(@, "language",
                       IF IsLanguage(language) THEN LanguageValue(language)
                       ELSE language)], started)

\* set_model that reconnects only when the model changes
DoSetModelIfChanged(s, model, started) ==
  IF s.settings["model"] = model
  THEN s
  ELSE Reconnect([s EXCEPT !.settings = SetItem(@, "model", model)], started)

\* set_model that stores the model only after it has reconnected
DoSetModelLate(s, model, started) ==
  LET s1 == Reconnect(s, started)
  IN [s1 EXCEPT !.settings = SetItem(@, "model", model)]

\* set_model
DoSetModel(s, model, started) ==
  Reconnect([s EXCEPT !.settings = SetItem(@, "model", model)], started)

\* _on_error that also lets go of the connection
OnErrorLetGo(s, kwargs) ==
  IF s.callbacks # None
  THEN [SinkOnError(s, Str(GetError(kwargs))) EXCEPT !.connection = 0]
  ELSE s

\* _on_error
OnError(s, kwargs) ==
  IF s.callbacks # None THEN SinkOnError(s, Str(GetError(kwargs))) ELSE s

\* the language of the first alternative, None when absent or unknown
ResultLanguage(result) ==
  LET alt == result.channel.alternatives[1]
  IN IF alt.languages # <<>>
     THEN LET l == LanguageOf(alt.languages[1])
          IN IF l = "ValueError" THEN None ELSE l
     ELSE None

TranscriptEvent(text, is_final, language, provider_payload) ==
  [text |-> text, is_final |-> is_final, language |-> language,
   provider_payload |-> provider_payload]

\* _on_message without the test for an empty transcript
OnMessageAnyText(s, result) ==
  IF s.callbacks = None THEN s
  ELSE IF Len(result.channel.alternatives) = 0 THEN s
  ELSE
    LET is_final == result.is_final
        transcript == result.channel.alternatives[1].transcript
        evt == TranscriptEvent(transcript, is_final, ResultLanguage(result),
                               result)
    IN IF is_final THEN SinkOnFinal(s, evt) ELSE SinkOnInterim(s, evt)

\* _on_message
OnMessage(s, result) ==
  IF s.callbacks = None THEN s
  ELSE IF Len(result.channel.alternatives) = 0 THEN s
  ELSE
    LET is_final == result.is_final
        transcript == result.channel.alternatives[1].transcript
        language == ResultLanguage(result)
    IN IF transcript # ""
       THEN LET evt == TranscriptEvent(transcript, is_final, language, result)
            IN IF is_final THEN SinkOnFinal(s, evt) ELSE SinkOnInterim(s, evt)
       ELSE s

\* the vendor connection emits an event: its handlers run in wiring order
RECURSIVE Emit(_, _, _, _)
Emit(s, on, event, arg) ==
  IF on = <<>> THEN s
  ELSE
    LET h == Head(on)
        s1 == IF h[1] # event THEN s
              ELSE IF h[2] = "_on_message" THEN OnMessage(s, arg)
              ELSE OnError(s, arg)
    IN Emit(s1, Tail(on), event, arg)

\* -------------------------------------------------- UnivoxSTTService, inner
\* pipeline frames process_frame is given
PipelineFrames ==
  {"UserStartedSpeakingFrame", "UserStoppedSpeakingFrame", "TextFrame"}

StartFrames == [audio_in_sample_rate : SampleRates]

\* STTService.start: the sample rate is the one the pipeline starts with
SuperStart(s, frame) ==
  [s EXCEPT !.service.sample_rate = frame.audio_in_sample_rate]

\* STTService.set_model: the service notes the model name
SuperSetModel(s, model) == [s EXCEPT !.service.model_name = model]

\* the service calls a method of its provider
Calls(s, call) == [s EXCEPT !.provider = Append(@, call)]

\* start that asks the provider for 16 kHz whatever the pipeline's rate
SvcStartFixedRate(s, frame, started) ==
  LET s1 == SuperStart(s, frame)
  IN DoStart(Calls(s1, <<"start", 16000>>), 16000, started)

\* UnivoxSTTService.start
SvcStart(s, frame, started) ==
  LET s1 == SuperStart(s, frame)
      sr == s1.service.sample_rate
  IN DoStart(Calls(s1, <<"start", sr>>), sr, started)

\* UnivoxSTTService.stop
SvcStop(s) == Disconnect(Calls(s, <<"stop">>))

\* UnivoxSTTService.cancel
SvcCancel(s) == Disconnect(Calls(s, <<"cancel">>))

\* UnivoxSTTService.run_stt
SvcRunStt(s, audio) == DoSendAudio(Calls(s, <<"send_audio", audio>>), audio)

\* UnivoxSTTService.set_model
SvcSetModel(s, model, started) ==
  DoSetModel(Calls(SuperSetModel(s, model), <<"set_model", model>>),
             model, started)

\* UnivoxSTTService.set_language
SvcSetLanguage(s, language, started) ==
  DoSetLanguage(Calls(s, <<"set_language", language>>), language, started)

\* the text of the exception the vendor's finalize() raises
FinalizeException == "finalize failed"

\* process_frame that lets an exception of finalize_utterance escape
SvcProcessFrameNoCatch(s, frame, fails) ==
  IF frame = "UserStoppedSpeakingFrame"
  THEN LET s1 == DoFinalize(s, fails)
       IN Calls(s1, <<"finalize_utterance", s1.raised>>)
  ELSE s

\* UnivoxSTTService.process_frame; the provider log notes whether
\* finalize_utterance raised
SvcProcessFrame(s, frame, fails) ==
  IF frame = "UserStartedSpeakingFrame" THEN s
  ELSE IF frame = "UserStoppedSpeakingFrame"
  THEN LET s1 == DoFinalize(s, fails)
           s2 == Calls(s1, <<"finalize_utterance", s1.raised>>)
       IN IF s1.raised
          THEN PushError([s2 EXCEPT !.raised = FALSE],
                         ErrorFrame("Univox finalize error: "
                                    \o FinalizeException))
          ELSE s2
  ELSE s

\* ------------------------------------------------------- CobraVADAnalyzer
\* floats: a number, kept in hundredths, or NaN
Float(v) == [nan |-> FALSE, v |-> v]
NaN == [nan |-> TRUE, v |-> 0]

\* a < b on floats: every comparison with NaN is false
Lt(a, b) == ~a.nan /\ ~b.nan /\ a.v < b.v

\* what cobra.process can give back: a float, or an exception
ModelValues == {Float(-50), Float(0), Float(37), Float(100), Float(250), NaN}
ProcessOutcomes ==
  {[raises |-> TRUE, value |-> Float(0)]}
    \cup {[raises |-> FALSE, value |-> v] : v \in ModelValues}

\* what voice_confidence is handed: a bytes object of some size, or an
\* object that is no buffer
Buffers ==
  {[bytes |-> TRUE, size |-> n] : n \in 0..MaxBufferBytes}
    \cup {[bytes |-> FALSE, size |-> 0]}

AccessKeys == {None, "", "key"}
VadSampleRates == {8000, 16000, 48000}

NoAnalyzer == [kind |-> "none", sample_rate |-> 0, cobra |-> FALSE]
NoVadCall == [op |-> "", args |-> <<>>, raised |-> "", result |-> <<>>,
              created |-> 0, processed |-> 0]

\* `not x` for an Optional[str]
Falsy(x) == x = None \/ x = ""

\* VADAnalyzer.set_sample_rate: the rate becomes the one given
SuperSetSampleRate(a, rate) == [a EXCEPT !.sample_rate = rate]

\* constructor that creates the native handle before it looks at the key
CobraInitCreateFirst(access_key, installed, created) ==
  IF ~installed
  THEN [raised |-> "ModuleNotFoundError", analyzer |-> NoAnalyzer, created |-> 0]
  ELSE IF Falsy(access_key)
  THEN [raised |-> "ValueError", analyzer |-> NoAnalyzer, created |-> 1]
  ELSE IF ~created
  THEN [raised |-> "CobraError", analyzer |-> NoAnalyzer, created |-> 1]
  ELSE [raised |-> "",
        analyzer |-> [kind |-> "cobra", sample_rate |-> 0, cobra |-> TRUE],
        created |-> 1]

\* CobraVADAnalyzer.__init__: installed says whether pvcobra can be
\* imported, created whether pvcobra.create gives a handle; created counts
\* the calls of pvcobra.create
CobraInit(access_key, installed, created) ==
  IF ~installed
  THEN [raised |-> "ModuleNotFoundError", analyzer |-> NoAnalyzer, created |-> 0]
  ELSE IF Falsy(access_key)
  THEN [raised |-> "ValueError", analyzer |-> NoAnalyzer, created |-> 0]
  ELSE IF ~created
  THEN [raised |-> "CobraError", analyzer |-> NoAnalyzer, created |-> 1]
  ELSE [raised |-> "",
        analyzer |-> [kind |-> "cobra", sample_rate |-> 0, cobra |-> TRUE],
        created |-> 1]

\* set_sample_rate that takes any rate
CobraSetSampleRateAny(a, rate) ==
  [raised |-> "", analyzer |-> SuperSetSampleRate(a, rate)]

\* CobraVADAnalyzer.set_sample_rate
CobraSetSampleRate(a, rate) ==
  IF rate # 16000
  THEN [raised |-> "ValueError", analyzer |-> a]
  ELSE [raised |-> "", analyzer |-> SuperSetSampleRate(a, rate)]

\* np.frombuffer(buffer, dtype=np.int16): the number of samples, or the
\* exception
FromBuffer(buffer) ==
  IF ~buffer.bytes THEN [raised |-> "TypeError", samples |-> 0]
  ELSE IF buffer.size % 2 # 0 THEN [raised |-> "ValueError", samples |-> 0]
  ELSE [raised |-> "", samples |-> buffer.size \div 2]

\* CobraVADAnalyzer.voice_confidence; processed counts the calls of
\* cobra.process
CobraVoiceConfidence(buffer, outcome) ==
  LET pcm == FromBuffer(buffer)
  IN IF pcm.raised # ""
     THEN [raised |-> "", result |-> Float(0), processed |-> 0]
     ELSE IF outcome.raises
     THEN [raised |-> "", result |-> Float(0), processed |-> 1]
     ELSE LET prob == outcome.value
          IN [raised |-> "",
              result |-> IF Lt(prob, Float(0)) THEN Float(0)
                         ELSE IF Lt(Float(100), prob) THEN Float(100)
                         ELSE prob,
              processed |-> 1]

\* ------------------------------------------------------------- create_vad
\* the environment create_vad reads, and what is installed
VadEnvs ==
  [VAD_BACKEND : {None, "silero", "cobra", "COBRA"},
   PICOVOICE_ACCESS_KEY : AccessKeys,
   pvcobra : BOOLEAN, created : BOOLEAN, silero : BOOLEAN]

\* str.lower
Lower(str) == IF str = "COBRA" THEN "cobra" ELSE str

\* x or default
Or(x, default) == IF Falsy(x) THEN default ELSE x

SileroAnalyzer == [kind |-> "silero", sample_rate |-> 0, cobra |-> FALSE]

\* the Silero branch of create_vad
SileroOrNone(env, created) ==
  [raised |-> "",
   analyzer |-> IF env.silero THEN SileroAnalyzer ELSE NoAnalyzer,
   created |-> created]

\* create_vad that lets a failed Cobra construction escape
CreateVadNoFallback(env) ==
  IF Lower(Or(env.VAD_BACKEND, "silero")) = "cobra"
  THEN CobraInit(Or(env.PICOVOICE_ACCESS_KEY, ""), env.pvcobra, env.created)
  ELSE SileroOrNone(env, 0)

\* create_vad
CreateVad(env) ==
  IF Lower(Or(env.VAD_BACKEND, "silero")) = "cobra"
  THEN LET r == CobraInit(Or(env.PICOVOICE_ACCESS_KEY, ""),
                          env.pvcobra, env.created)
       IN IF r.raised = "" THEN r ELSE SileroOrNone(env, r.created)
  ELSE SileroOrNone(env, 0)

\* ---------------------------------------------------------------- actions
\* the call returns: its effects become the state
Commit(op, args, s) ==
  /\ live_options' = live_options
  /\ settings' = s.settings
  /\ connection' = s.connection
  /\ callbacks' = s.callbacks
  /\ sample_rate' = s.sample_rate
  /\ conns' = Collect(s.conns, s.connection)
  /\ downstream' = s.downstream
  /\ service' = s.service
  /\ vad' = vad
  /\ last' = [op |-> op, args |-> args, provider |-> s.provider,
              vendor |-> s.vendor,
              internal |-> s.internal, sink |-> s.sink, frames |-> s.frames,
              raised |-> s.raised]

\* what a caller may pass as live_options: nothing, or a LiveOptions object
\* that sets or leaves unset each of these fields
CallerLiveOptions ==
  {<<>>} \cup
  { <<[k \in LiveOptionFields |->
        IF k = "vad_events" THEN v
        ELSE IF k = "interim_results" THEN i
        ELSE IF k = "model" THEN m
        ELSE IF k = "language" THEN l
        ELSE <<>>]>> :
    v \in {<<>>, <<TRUE>>, <<FALSE>>},
    i \in {<<>>, <<TRUE>>, <<FALSE>>},
    m \in {<<>>, <<"None">>, <<"nova-2">>},
    l \in {<<>>, <<"Language.ES">>} }

\* DeepgramProvider.__init__(live_options = lo)
InitWith(lo) ==
    /\ live_options = lo
    /\ settings = MergedSettings(lo)
    /\ connection = 0
    /\ callbacks = None
    /\ sample_rate = 0
    /\ conns = [c \in ConnIds |-> FreeConn]
    /\ downstream = <<>>
    /\ service = [sample_rate |-> 0, model_name |-> None]
    /\ vad = [analyzer |-> NoAnalyzer, call |-> NoVadCall]
    /\ last = [op |-> "__init__", args |-> <<lo>>, provider |-> <<>>,
               vendor |-> <<>>,
               internal |-> <<>>, sink |-> <<>>, frames |-> <<>>,
               raised |-> FALSE]

\* constructed as the example does: DeepgramProvider(api_key = ...)
Init == InitWith(<<>>)

\* constructed with any caller-supplied live options
InitOptions == \E lo \in CallerLiveOptions : InitWith(lo)

\* UnivoxSTTService.__init__ registers its sink on the provider
SetCallbacks ==
  Commit("set_callbacks", <<>>, [Begin EXCEPT !.callbacks = "_ServiceCallbacks"])

Start ==
  \E sr \in SampleRates, started \in BOOLEAN :
    /\ CanConnect(Begin)
    /\ Commit("start", <<sr>>, DoStart(Begin, sr, started))

Stop == Commit("stop", <<>>, Disconnect(Begin))

Cancel == Commit("cancel", <<>>, Disconnect(Begin))

SendAudio ==
  \E audio \in AudioChunks :
    Commit("send_audio", <<audio>>, DoSendAudio(Begin, audio))

FinalizeUtterance ==
  \E fails \in BOOLEAN :
    /\ connection = 0 => ~fails
    /\ Commit("finalize_utterance", <<>>, DoFinalize(Begin, fails))

SetLanguage ==
  \E language \in LanguageArgs, started \in BOOLEAN :
    /\ CanConnect(Disconnect(Begin))
    /\ Commit("set_language", <<language>>,
              DoSetLanguage(Begin, language, started))

SetModel ==
  \E model \in Models, started \in BOOLEAN :
    /\ CanConnect(Disconnect(Begin))
    /\ Commit("set_model", <<model>>, DoSetModel(Begin, model, started))

\* an open connection delivers a transcript result
VendorTranscript ==
  \E c \in ConnIds, result \in Results :
    /\ conns[c].state = "open"
    /\ Len(downstream) < MaxFrames
    /\ Commit("Transcript", <<c, result>>,
              Emit(Begin, conns[c].on, "Transcript", result))

\* an open connection delivers an error event
VendorError ==
  \E c \in ConnIds, kwargs \in ErrorKwargs :
    /\ conns[c].state = "open"
    /\ Commit("Error", <<c, kwargs>>, Emit(Begin, conns[c].on, "Error", kwargs))

\* the remote side closes an open connection
VendorDrop ==
  \E c \in ConnIds :
    /\ conns[c].state = "open"
    /\ Commit("drop", <<c>>, [Begin EXCEPT !.conns[c].state = "lost"])

\* the connections the last operation closed with finish()
Finished ==
  {last.vendor[i][2] : i \in {j \in DOMAIN last.vendor :
                                last.vendor[j][1] = "finish"}}

\* a connection the provider has just finished still delivers a transcript
\* result that was on its way: the handlers _connect registered on it run
VendorLateTranscript ==
  \E c \in Finished, result \in Results :
    /\ Len(downstream) < MaxFrames
    /\ Commit("LateTranscript", <<c, result>>,
              Emit(Begin, Wiring, "Transcript", result))

\* a connection the provider has just finished still delivers an error event
VendorLateError ==
  \E c \in Finished, kwargs \in ErrorKwargs :
    Commit("LateError", <<c, kwargs>>, Emit(Begin, Wiring, "Error", kwargs))

\* the pipeline starts the service
ServiceStart ==
  \E frame \in StartFrames, started \in BOOLEAN :
    /\ callbacks # None
    /\ CanConnect(Begin)
    /\ Commit("service.start", <<frame>>, SvcStart(Begin, frame, started))

ServiceStop ==
  /\ callbacks # None
  /\ Commit("service.stop", <<>>, SvcStop(Begin))

ServiceCancel ==
  /\ callbacks # None
  /\ Commit("service.cancel", <<>>, SvcCancel(Begin))

RunStt ==
  \E audio \in AudioChunks :
    /\ callbacks # None
    /\ Commit("run_stt", <<audio>>, SvcRunStt(Begin, audio))

ProcessFrame ==
  \E frame \in PipelineFrames, fails \in BOOLEAN :
    /\ callbacks # None
    /\ (connection = 0 \/ frame # "UserStoppedSpeakingFrame") => ~fails
    /\ Commit("process_frame", <<frame>>, SvcProcessFrame(Begin, frame, fails))

ServiceSetModel ==
  \E model \in Models, started \in BOOLEAN :
    /\ callbacks # None
    /\ CanConnect(Disconnect(Begin))
    /\ Commit("service.set_model", <<model>>,
              SvcSetModel(Begin, model, started))

ServiceSetLanguage ==
  \E language \in LanguageArgs, started \in BOOLEAN :
    /\ callbacks # None
    /\ CanConnect(Disconnect(Begin))
    /\ Commit("service.set_language", <<language>>,
              SvcSetLanguage(Begin, language, started))

\* the rest of the program is not touched by the VAD calls
VadOnly ==
  UNCHANGED <<live_options, settings, connection, callbacks, sample_rate,
              conns, downstream, service, last>>

\* CobraVADAnalyzer(access_key=...): the transport holds the new analyzer
\* when the constructor returns, the one it had when it raises
NewCobra ==
  \E access_key \in AccessKeys, installed \in BOOLEAN, created \in BOOLEAN :
    LET r == CobraInit(access_key, installed, created)
    IN /\ vad' = [analyzer |-> IF r.raised = "" THEN r.analyzer
                                ELSE vad.analyzer,
                  call |-> [op |-> "CobraVADAnalyzer",
                            args |-> <<access_key, installed>>,
                            raised |-> r.raised, result |-> <<>>,
                            created |-> r.created, processed |-> 0]]
       /\ VadOnly

SetSampleRate ==
  \E sr \in VadSampleRates :
    /\ vad.analyzer.kind = "cobra"
    /\ LET r == CobraSetSampleRate(vad.analyzer, sr)
       IN vad' = [analyzer |-> r.analyzer,
                  call |-> [op |-> "set_sample_rate", args |-> <<sr>>,
                            raised |-> r.raised, result |-> <<>>,
                            created |-> 0, processed |-> 0]]
    /\ VadOnly

VoiceConfidence ==
  \E buffer \in Buffers, outcome \in ProcessOutcomes :
    /\ vad.analyzer.kind = "cobra"
    /\ LET r == CobraVoiceConfidence(buffer, outcome)
       IN vad' = [vad EXCEPT !.call =
                    [op |-> "voice_confidence", args |-> <<buffer, outcome>>,
                     raised |-> r.raised, result |-> <<r.result>>,
                     created |-> 0, processed |-> r.processed]]
    /\ VadOnly

CreateVadCall ==
  \E env \in VadEnvs :
    LET r == CreateVad(env)
    IN /\ vad' = [analyzer |-> IF r.raised = "" THEN r.analyzer
                                ELSE vad.analyzer,
                  call |-> [op |-> "create_vad", args |-> <<env>>,
                            raised |-> r.raised, result |-> <<r.analyzer>>,
                            created |-> r.created, processed |-> 0]]
       /\ VadOnly

\* the provider's operations and the fate of its connections
Next ==
  \/ SetCallbacks
  \/ Start
  \/ Stop
  \/ Cancel
  \/ SendAudio
  \/ FinalizeUtterance
  \/ SetLanguage
  \/ SetModel
  \/ VendorError
  \/ VendorDrop

Spec == Init /\ [][Next]_vars

\* the vendor's events, across connects, reconnects and stops
NextEvents ==
  \/ SetCallbacks
  \/ Start
  \/ Stop
  \/ SetModel
  \/ VendorTranscript
  \/ VendorDrop

SpecEvents == Init /\ [][NextEvents]_vars

\* every construction, then the operations that open connections
NextOptions ==
  \/ SetCallbacks
  \/ Start
  \/ Stop
  \/ SetLanguage
  \/ SetModel

SpecOptions == InitOptions /\ [][NextOptions]_vars

\* the pipeline drives the service, the service drives the provider
NextService ==
  \/ SetCallbacks
  \/ ServiceStart
  \/ ServiceStop
  \/ ServiceCancel
  \/ RunStt
  \/ ProcessFrame
  \/ ServiceSetModel
  \/ ServiceSetLanguage
  \/ VendorDrop

SpecService == Init /\ [][NextService]_vars

\* the provider's lifecycle and the events of connections it gave up
NextLate ==
  \/ SetCallbacks
  \/ Start
  \/ Stop
  \/ Cancel
  \/ SetModel
  \/ VendorTranscript
  \/ VendorLateTranscript
  \/ VendorLateError

SpecLate == Init /\ [][NextLate]_vars

\* the transport makes and uses its VAD analyzer
NextVad ==
  \/ NewCobra
  \/ SetSampleRate
  \/ VoiceConfidence
  \/ CreateVadCall

SpecVad == Init /\ [][NextVad]_vars


\* ---------------------------------------------------------------- helpers
OpenConns == {c \in ConnIds : conns[c].state = "open"}

\* the provider holds a connection and it is connected
Connected == connection # 0 /\ conns[connection].state = "open"

\* the entries of a log whose first element is tag
Entries(log, tag) == {i \in DOMAIN log : log[i][1] = tag}

\* the vendor start() call of the last operation, if it made one
StartCall == last.vendor[CHOOSE i \in Entries(last.vendor, "start") : TRUE]

\* ------------------------------------------------------------------ C1
\* C1: in every reachable state at most one vendor connection opened by the
\* provider is open (start called again while connected included).
C1_AtMostOneOpenConnection == Cardinality(OpenConns) <= 1

\* ------------------------------------------------------------------ C2
\* C2: a start whose vendor open fails does not raise, reports exactly one
\* on_error to the registered sink, and leaves the provider holding no
\* connection; send_audio and finalize_utterance then send nothing.
C2_FailedStartLeavesDisconnected ==
  /\ (last.op = "start" /\ ~StartCall[4]) =>
       /\ ~last.raised
       /\ callbacks # None =>
            Cardinality(Entries(last.sink, "on_error")) = 1
       /\ connection = 0
  /\ (last.op \in {"send_audio", "finalize_utterance"} /\ ~Connected) =>
       last.vendor = <<>>

\* ------------------------------------------------------------------ C3
\* C3: every set_language / set_model call, in any state and for any value,
\* runs _disconnect exactly once and then _connect exactly once: the held
\* connection, if connected, is finished first, then one new connection
\* is created and started, and nothing else is asked of the vendor.
C3_OneDisconnectThenOneConnect ==
  [][last'.op \in {"set_language", "set_model"} =>
       /\ last'.internal = <<"_disconnect", "_connect">>
       /\ connection' # 0
       /\ last'.vendor =
            (IF Connected THEN << <<"finish", connection>> >> ELSE <<>>)
            \o << <<"v", connection'>>,
                  <<"start", connection', settings',
                    conns'[connection'].state = "open">> >>
    ]_vars

\* an unchanged model is set on a connected provider: the old connection is
\* finished and a new one is opened
C3_Witness ==
  /\ last.op = "set_model"
  /\ last.args = <<"nova-3-general">>
  /\ Len(last.vendor) = 3
  /\ last.vendor[1][1] = "finish"
  /\ Connected

\* ------------------------------------------------------------------ C4
\* C4: send_audio never raises; it hands the audio to the vendor exactly when
\* the held connection is connected, and sends nothing otherwise.
C4_SendAudioOnlyWhileConnected ==
  last.op = "send_audio" =>
    /\ ~last.raised
    /\ last.vendor = IF Connected
                     THEN << <<"send", connection, last.args[1]>> >>
                     ELSE <<>>

\* send_audio after an open that failed: nothing is sent
C4_Witness ==
  /\ last.op = "send_audio"
  /\ connection # 0
  /\ conns[connection].state = "failed"
  /\ last.vendor = <<>>

\* ------------------------------------------------------------------ C5
\* C5: finalize_utterance sends exactly one finalize to the vendor when the
\* provider is connected, and sends nothing and does not raise when it is
\* not (never started, stopped, open failed, connection lost).
C5_FinalizeOnlyWhileConnected ==
  last.op = "finalize_utterance" =>
    IF Connected
    THEN last.vendor = << <<"finalize", connection>> >>
    ELSE last.vendor = <<>> /\ ~last.raised

\* ------------------------------------------------------------------ C9
\* C9: cancel never raises and leaves no connection held; with nothing held
\* (never started, after stop, after cancel) it asks nothing of the vendor
\* and changes nothing, so a second cancel is the same as one.
C9_CancelIdempotent ==
  [][last'.op = "cancel" =>
       /\ ~last'.raised
       /\ connection' = 0
       /\ last'.vendor =
            (IF Connected THEN << <<"finish", connection>> >> ELSE <<>>)
       /\ connection = 0 =>
            /\ last'.vendor = <<>>
            /\ settings' = settings
            /\ sample_rate' = sample_rate
            /\ callbacks' = callbacks
            /\ conns' = conns
            /\ downstream' = downstream
    ]_vars

\* cancel on a provider that was never started
C9_Witness ==
  /\ last.op = "cancel"
  /\ sample_rate = 0
  /\ connection = 0
  /\ last.vendor = <<>>
  /\ ~last.raised


\* ------------------------------------------------------------ C6, C7, C8
\* the transcript result the last vendor event carried
LastResult == last.args[2]

\* a result with no alternative, or whose first alternative has no text
Droppable(r) ==
  \/ Len(r.channel.alternatives) = 0
  \/ r.channel.alternatives[1].transcript = ""

\* C6: a transcript event with zero alternatives or an empty first transcript
\* reaches no method of the sink (on_interim, on_final, on_error), and no
\* frame is pushed for it.
C6_EmptyTranscriptDropped ==
  (last.op = "Transcript" /\ Droppable(LastResult)) =>
    last.sink = <<>> /\ last.frames = <<>>

\* an empty transcript arrives while a sink is registered
C6_Witness ==
  /\ last.op = "Transcript"
  /\ callbacks # None
  /\ Len(LastResult.channel.alternatives) = 1
  /\ LastResult.channel.alternatives[1].transcript = ""
  /\ last.sink = <<>>

\* C7: with a sink registered, a transcript event with an alternative and
\* non-empty text causes exactly one sink callback, on_final when the
\* vendor's is_final is true and on_interim otherwise, carrying the first
\* alternative's transcript, the vendor's flag and the vendor event itself.
C7_OneCallbackPerTranscript ==
  (last.op = "Transcript" /\ callbacks # None /\ ~Droppable(LastResult)) =>
    /\ Len(last.sink) = 1
    /\ last.sink[1][1] = IF LastResult.is_final THEN "on_final" ELSE "on_interim"
    /\ last.sink[1][2].text = LastResult.channel.alternatives[1].transcript
    /\ last.sink[1][2].is_final = LastResult.is_final
    /\ last.sink[1][2].provider_payload = LastResult

\* a final transcript is delivered on a connection opened by a reconnect
C7_Witness ==
  /\ last.op = "Transcript"
  /\ settings["model"] = "nova-2"
  /\ LastResult.is_final
  /\ Len(last.sink) = 1
  /\ last.sink[1][1] = "on_final"

\* the frame the service pushes for a delivered result
FrameFor(r) ==
  [type |-> IF r.is_final THEN "TranscriptionFrame"
            ELSE "InterimTranscriptionFrame",
   text |-> r.channel.alternatives[1].transcript,
   result |-> r]

\* what identifies a pushed frame: its kind, its text and its vendor event
FrameKey(f) == [type |-> f.type, text |-> f.text, result |-> f.result]

\* C8: the frames pushed downstream are in the order of the vendor events:
\* each delivered event appends its one frame behind all earlier frames, a
\* dropped event and every other operation leave the frames as they are.
C8_FramesInEmissionOrder ==
  [][/\ last'.op = "Transcript" =>
          LET r == last'.args[2]
          IN IF callbacks # None /\ ~Droppable(r)
             THEN /\ Len(downstream') = Len(downstream) + 1
                  /\ SubSeq(downstream', 1, Len(downstream)) = downstream
                  /\ FrameKey(downstream'[Len(downstream')]) = FrameFor(r)
                  /\ Len(last'.sink) = 1
                  /\ last'.sink[1][2].provider_payload = r
             ELSE downstream' = downstream
     /\ last'.op # "Transcript" => downstream' = downstream
    ]_vars

\* an interim frame followed by the final frame of the same text
C8_Witness ==
  /\ Len(downstream) = 2
  /\ downstream[1].type = "InterimTranscriptionFrame"
  /\ downstream[2].type = "TranscriptionFrame"
  /\ downstream[1].text = downstream[2].text
  /\ last.op = "Transcript"
  /\ LastResult.is_final

\* ----------------------------------------------------------------- C10
\* the value the caller gave a LiveOptions field, <<>> when it gave none
CallerValue(k) == IF live_options = <<>> THEN <<>> ELSE live_options[1][k]

\* C10: for every caller-supplied live options the merged settings, and the
\* options of every connection opened, have vad_events false and
\* interim_results true.
C10_VadOffInterimOn ==
  /\ settings["vad_events"] = FALSE
  /\ settings["interim_results"] = TRUE
  /\ \A i \in Entries(last.vendor, "start") :
       /\ last.vendor[i][3]["vad_events"] = FALSE
       /\ last.vendor[i][3]["interim_results"] = TRUE

\* the flag k as the merge leaves it: the caller's value when the caller set
\* it, the default otherwise
FlagAsMerged(d, k, default) ==
  /\ k \in DOMAIN d
  /\ d[k] = IF CallerValue(k) = <<>> THEN default ELSE CallerValue(k)[1]

\* C10 amended: when the caller gives no options or options that leave
\* vad_events (interim_results) unset, the merged settings and the options
\* of every connection opened have vad_events false (interim_results true);
\* a flag the caller sets is kept as the caller set it.
C10_FlagsDefaultUnlessSet ==
  /\ FlagAsMerged(settings, "vad_events", FALSE)
  /\ FlagAsMerged(settings, "interim_results", TRUE)
  /\ \A i \in Entries(last.vendor, "start") :
       /\ FlagAsMerged(last.vendor[i][3], "vad_events", FALSE)
       /\ FlagAsMerged(last.vendor[i][3], "interim_results", TRUE)

\* options that omit both flags, and a connection opened with the defaults
C10_Witness ==
  /\ live_options # <<>>
  /\ CallerValue("vad_events") = <<>>
  /\ CallerValue("interim_results") = <<>>
  /\ CallerValue("model") = <<"nova-2">>
  /\ last.op = "start"
  /\ StartCall[3]["vad_events"] = FALSE
  /\ StartCall[3]["interim_results"] = TRUE
  /\ StartCall[3]["model"] = "nova-2"


\* ----------------------------------------------------------------- C12
\* C12: every TranscriptEvent handed to the service's sink becomes exactly
\* one frame: an interim transcription frame for on_interim, a final one for
\* on_final, with the event's text, language and provider payload, and no
\* other frame.
C12_OneFramePerEvent ==
  last.op = "Transcript" =>
    /\ Len(last.frames) = Len(last.sink)
    /\ \A i \in DOMAIN last.sink :
         LET evt == last.sink[i][2]
             f == last.frames[i]
         IN /\ f.type = IF last.sink[i][1] = "on_final"
                        THEN "TranscriptionFrame"
                        ELSE "InterimTranscriptionFrame"
            /\ f.text = evt.text
            /\ f.language = evt.language
            /\ f.result = evt.provider_payload

\* a final event with a recognised language became a final frame
C12_Witness ==
  /\ last.op = "Transcript"
  /\ Len(last.sink) = 1
  /\ last.sink[1][1] = "on_final"
  /\ last.sink[1][2].language = "Language.EN"
  /\ last.frames[1].type = "TranscriptionFrame"
  /\ last.frames[1].language = "Language.EN"

\* ----------------------------------------------------------------- C13
\* C13: with a sink registered, a vendor error event is handed to on_error
\* exactly once as a plain string, the service pushes exactly one error
\* frame with that string, nothing is raised and the provider's connection
\* state is unchanged.
C13_ErrorEventToOneErrorFrame ==
  [][last'.op = "Error" =>
       LET kwargs == last'.args[2]
           text == IF "error" \in DOMAIN kwargs
                   THEN kwargs["error"].err_msg ELSE "None"
       IN /\ ~last'.raised
          /\ connection' = connection
          /\ conns' = conns
          /\ settings' = settings
          /\ last'.vendor = <<>>
          /\ callbacks # None =>
               /\ last'.sink = << <<"on_error", text>> >>
               /\ last'.frames = << [type |-> "ErrorFrame", error |-> text] >>
    ]_vars

\* an error event on the connected provider reached the sink
C13_Witness ==
  /\ last.op = "Error"
  /\ callbacks # None
  /\ Connected
  /\ last.args[1] = connection
  /\ last.sink = << <<"on_error", "closed">> >>
  /\ Len(last.frames) = 1

\* ----------------------------------------------------------------- C20
\* C20: the provider holds a connection only between a start and the next
\* stop or cancel: stop and cancel leave none held, and while none is held
\* no operation other than start makes it hold one.
C20_ConnectedOnlyBetweenStartAndStop ==
  [][/\ last'.op \in {"stop", "cancel"} => connection' = 0
     /\ (connection = 0 /\ last'.op # "start") => connection' = 0
    ]_vars


\* ----------------------------------------------------------------- C11
\* C11: a UserStoppedSpeakingFrame makes the service call the provider's
\* finalize_utterance exactly once; when that call raises, the service
\* pushes exactly one error frame and raises nothing itself, so the frames
\* that follow are processed; no other frame calls the provider.
C11_FinalizeOncePerStop ==
  last.op = "process_frame" =>
    /\ ~last.raised
    /\ IF last.args[1] = "UserStoppedSpeakingFrame"
       THEN /\ Len(last.provider) = 1
            /\ last.provider[1][1] = "finalize_utterance"
            /\ IF last.provider[1][2]
               THEN /\ Len(last.frames) = 1
                    /\ last.frames[1].type = "ErrorFrame"
               ELSE last.frames = <<>>
       ELSE last.provider = <<>> /\ last.frames = <<>>

\* finalize_utterance raised and one error frame was pushed
C11_Witness ==
  /\ last.op = "process_frame"
  /\ last.args[1] = "UserStoppedSpeakingFrame"
  /\ last.provider = << <<"finalize_utterance", TRUE>> >>
  /\ last.frames = << [type |-> "ErrorFrame",
                       error |-> "Univox finalize error: finalize failed"] >>
  /\ ~last.raised

\* ----------------------------------------------------------------- C14
\* C14: each pipeline start makes exactly one provider start with the
\* service's sample rate, each stop one provider stop, each cancel one
\* provider cancel, each run_stt buffer one provider send_audio.
C14_LifecycleForwardedOneToOne ==
  /\ last.op = "service.start" =>
       /\ last.provider = << <<"start", service.sample_rate>> >>
       /\ sample_rate = service.sample_rate
       /\ Cardinality(Entries(last.vendor, "start")) = 1
       /\ StartCall[3]["sample_rate"] = service.sample_rate
  /\ last.op = "service.stop" => last.provider = << <<"stop">> >>
  /\ last.op = "service.cancel" => last.provider = << <<"cancel">> >>
  /\ last.op = "run_stt" =>
       last.provider = << <<"send_audio", last.args[1]>> >>

\* the pipeline started at 8 kHz and the provider was started at 8 kHz
C14_Witness ==
  /\ last.op = "service.start"
  /\ service.sample_rate = 8000
  /\ last.provider = << <<"start", 8000>> >>
  /\ Connected

\* ----------------------------------------------------------------- C15
\* the value set_language stores for a language argument
StoredLanguage(l) == IF l = "Language.EN" THEN "en"
                     ELSE IF l = "Language.ES" THEN "es" ELSE l

\* C15: set_model(m) / set_language(l) on the service is forwarded to the
\* provider once, and the connection opened by the call is started with the
\* settings as they were before the call except that model is m (language
\* is l's value); these are the provider's settings afterwards.
C15_NewValueAppliedOnReconnect ==
  [][/\ last'.op = "service.set_model" =>
          LET m == last'.args[1]
              i == CHOOSE j \in Entries(last'.vendor, "start") : TRUE
          IN /\ last'.provider = << <<"set_model", m>> >>
             /\ Cardinality(Entries(last'.vendor, "start")) = 1
             /\ last'.vendor[i][2] = connection'
             /\ last'.vendor[i][3] = SetItem(settings, "model", m)
             /\ settings' = SetItem(settings, "model", m)
     /\ last'.op = "service.set_language" =>
          LET l == StoredLanguage(last'.args[1])
              i == CHOOSE j \in Entries(last'.vendor, "start") : TRUE
          IN /\ last'.provider = << <<"set_language", last'.args[1]>> >>
             /\ Cardinality(Entries(last'.vendor, "start")) = 1
             /\ last'.vendor[i][2] = connection'
             /\ last'.vendor[i][3] = SetItem(settings, "language", l)
             /\ settings' = SetItem(settings, "language", l)
    ]_vars

\* a started, connected provider was switched to another model: the new
\* connection is open and carries the model and the sample rate
C15_Witness ==
  /\ last.op = "service.set_model"
  /\ last.args = <<"nova-2">>
  /\ Connected
  /\ last.vendor[1][1] = "finish"
  /\ StartCall[3]["model"] = "nova-2"
  /\ "sample_rate" \in DOMAIN StartCall[3]
  /\ StartCall[3]["sample_rate"] = 8000
  /\ StartCall[3]["language"] = "es"


\* ----------------------------------------------------------------- C16
\* C16: set_sample_rate of the Cobra analyzer raises ValueError for every
\* rate other than 16000 and leaves the analyzer as it was;
\* set_sample_rate(16000) returns and the analyzer's rate is 16000.
C16_OnlySixteenKilohertz ==
  [][vad'.call.op = "set_sample_rate" =>
       IF vad'.call.args[1] # 16000
       THEN vad'.call.raised = "ValueError" /\ vad'.analyzer = vad.analyzer
       ELSE /\ vad'.call.raised = ""
            /\ vad'.analyzer = [vad.analyzer EXCEPT !.sample_rate = 16000]
    ]_vars

\* an analyzer running at 16000 refused 8000 and still runs at 16000
C16_Witness ==
  /\ vad.call.op = "set_sample_rate"
  /\ vad.call.args = <<8000>>
  /\ vad.call.raised = "ValueError"
  /\ vad.analyzer.sample_rate = 16000

\* ----------------------------------------------------------------- C17
\* a float in [0.0, 1.0]
InUnitInterval(x) == ~x.nan /\ 0 <= x.v /\ x.v <= 100

\* C17: voice_confidence never raises, calls the model at most once and
\* returns a value in [0.0, 1.0], for every buffer and every outcome of the
\* model.
C17_ConfidenceInUnitInterval ==
  vad.call.op = "voice_confidence" =>
    /\ vad.call.raised = ""
    /\ vad.call.processed <= 1
    /\ InUnitInterval(vad.call.result[1])

\* ----------------------------------------------------------------- C18
\* C18: constructing a CobraVADAnalyzer with an empty or missing access key
\* raises (ValueError when pvcobra can be imported, ModuleNotFoundError when
\* it cannot), pvcobra.create is not called, and no analyzer comes of it.
C18_NoKeyNoHandle ==
  [][(vad'.call.op = "CobraVADAnalyzer" /\ Falsy(vad'.call.args[1])) =>
       /\ vad'.call.raised = IF vad'.call.args[2] THEN "ValueError"
                             ELSE "ModuleNotFoundError"
       /\ vad'.call.created = 0
       /\ vad'.analyzer = vad.analyzer
    ]_vars

\* pvcobra is installed, the key is empty: ValueError and no handle
C18_Witness ==
  /\ vad.call.op = "CobraVADAnalyzer"
  /\ vad.call.args = <<"", TRUE>>
  /\ vad.call.raised = "ValueError"
  /\ vad.call.created = 0
  /\ vad.analyzer.kind = "none"

\* ----------------------------------------------------------------- C19
\* create_vad was told to use Cobra and found no credential
CobraWithoutKey ==
  /\ vad.call.op = "create_vad"
  /\ Lower(Or(vad.call.args[1].VAD_BACKEND, "silero")) = "cobra"
  /\ Falsy(vad.call.args[1].PICOVOICE_ACCESS_KEY)

C21_OpenedWithStartSampleRate ==
  \A i \in Entries(last.vendor, "start") :
    /\ "sample_rate" \in DOMAIN last.vendor[i][3]
    /\ last.vendor[i][3]["sample_rate"] = sample_rate


\* ----------------------------------------------------------------- C22
\* the last step was a vendor event of a connection the provider does not
\* hold: one it finished, or one it replaced
FromReleasedConnection ==
  \/ last.op \in {"LateTranscript", "LateError"}
  \/ last.op \in {"Transcript", "Error"} /\ last.args[1] # connection

\* C22: a vendor event of a connection the provider no longer holds (closed
\* by stop or cancel, or replaced) reaches no method of the sink, and the
\* service pushes no frame for it.
C22_NoEventFromReleasedConnection ==
  FromReleasedConnection => last.sink = <<>> /\ last.frames = <<>>

====
